---- MODULE Spec2Model ----
(***************************************************************************)
(* A model of kopf/reactor/effects.py: applying the effects accumulated    *)
(* during a reaction cycle (apply, patch_and_check), the interruptible     *)
(* sleep (sleep_or_wait) and the throttler (throttled).                    *)
(*                                                                         *)
(* One worker drives one object: it is either idle, inside an apply()      *)
(* cycle, inside a throttled() scope, or inside a bare sleep_or_wait().    *)
(* The three routines share nothing but the clock and the wake-up event,   *)
(* so that a behaviour calls one of them (unit) again and again, with the  *)
(* clock and the event changing in between.                                *)
(* Optional values are encoded as sequences: None is <<>>, a value x is    *)
(* <<x>>.  Time is counted in whole seconds by one clock that stands for   *)
(* time.monotonic(), loop.time() and the wall clock alike.                 *)
(***************************************************************************)
EXTENDS Integers, Sequences, FiniteSets, TLC

VARIABLES unit, now, wakeup, steps, pc, throttler, backoff, lastMarker, a, pac, slp, t

vars == <<unit, now, wakeup, steps, pc, throttler, backoff, lastMarker, a, pac, slp, t>>

-----------------------------------------------------------------------------
(* Bounds of the model. *)

\* The number of operations (calls and clock ticks) in one behaviour.
MaxSteps == 4

\* The time until which the guarded scope may fail, and until which the
\* time goes by with no throttling, in the behaviours with no end.
Horizon == 3

\* By how much the measured duration of an interrupted wait may exceed
\* its timeout (the wake-up is measured after the event was set).
Jitter == 1

-----------------------------------------------------------------------------
(* Optional values. *)

None == <<>>

Some(x) == <<x>>

Val(o) == o[1]

SetMin(S) == CHOOSE x \in S : \A y \in S : x <= y

SeqRange(s) == {s[i] : i \in 1..Len(s)}

IsSome(o) == o # None

-----------------------------------------------------------------------------
(* Constants of the program. *)

WAITING_KEEPALIVE_INTERVAL == 10 * 60

KNOWN_INCONSISTENCIES == {"metadata.annotations", "metadata.finalizers", "metadata.labels"}

-----------------------------------------------------------------------------
(* sleep_or_wait *)

\* The argument of sleep_or_wait: a bare optional number, or a collection.
Scalar(o) == [coll |-> FALSE, x |-> o, xs |-> <<>>]

Coll(s) == [coll |-> TRUE, x |-> None, xs |-> s]

PassedDelays(d) == IF d.coll THEN d.xs ELSE <<d.x>>

ActualDelays(d) == SelectSeq(PassedDelays(d), IsSome)

MinimalDelay(d) ==
    IF ActualDelays(d) # <<>>
    THEN SetMin({Val(o) : o \in SeqRange(ActualDelays(d))})
    ELSE 0

\* Whether the real wait is skipped.
NoNeedToSleep(minimal_delay) == minimal_delay <= 0

\* A variant: the time slept is not taken off.
SleepRemainderNoElapsed(minimal_delay, duration) ==
    IF minimal_delay > 0 THEN minimal_delay ELSE 0

\* max(0, minimal_delay - duration)
SleepRemainder(minimal_delay, duration) ==
    IF minimal_delay - duration > 0 THEN minimal_delay - duration ELSE 0

\* The elapsed times at which a signal is tried during a wait of m seconds.
InterruptPoints(m) == {x \in ({0, 1, m - 1, m} \cup (m..(m + Jitter))) : x >= 0}

NoSleep ==
    [called |-> FALSE, minimal |-> 0, waited |-> FALSE, signalled |-> FALSE,
     preset |-> FALSE, elapsed |-> 0, ret |-> None, wakeup |-> FALSE]

\* The event to wait for: the caller's one (a DaemonStopper's async_event
\* is the same thing here), or a new one that nobody else can set.
AwakeningEvent(wk) ==
    IF wk # None THEN [set |-> Val(wk), shared |-> TRUE]
    ELSE [set |-> FALSE, shared |-> FALSE]

\* All the outcomes of one call sleep_or_wait(d, wk), where wk is None or
\* the state of the caller's event at the start: the returned value, the
\* time that elapsed, and the state of the event at the end (the sleeper
\* never clears it).
SleepOrWait(d, wk) ==
    LET m == MinimalDelay(d)
        ev == AwakeningEvent(wk)
    IN
    IF NoNeedToSleep(m)
    THEN {[called |-> TRUE, minimal |-> m, waited |-> FALSE, signalled |-> FALSE,
           preset |-> ev.set, elapsed |-> 0, ret |-> None, wakeup |-> ev.set]}
    ELSE IF ev.set
    THEN \* the event is set already: wait() returns at once.
         {[called |-> TRUE, minimal |-> m, waited |-> TRUE, signalled |-> TRUE,
           preset |-> TRUE, elapsed |-> 0, ret |-> Some(SleepRemainder(m, 0)),
           wakeup |-> TRUE]}
    ELSE \* asyncio.TimeoutError: the full timeout has elapsed.
         {[called |-> TRUE, minimal |-> m, waited |-> TRUE, signalled |-> FALSE,
           preset |-> FALSE, elapsed |-> m, ret |-> None, wakeup |-> FALSE]}
         \cup
         \* the event is set by somebody else during the wait.
         {[called |-> TRUE, minimal |-> m, waited |-> TRUE, signalled |-> TRUE,
           preset |-> FALSE, elapsed |-> e, ret |-> Some(SleepRemainder(m, e)),
           wakeup |-> TRUE] : e \in IF ev.shared THEN InterruptPoints(m) ELSE {}}

-----------------------------------------------------------------------------
(* Patches, bodies and patch_and_check *)

\* The fields of the object a patch may set, besides the touch marker.
Fields == {"metadata.labels", "status.x"}

\* The value of a field: not there, an empty list/dict, or some content.
Vals == {"absent", "empty", "a", "b"}

Falsy(v) == v \in {"absent", "empty"}

\* patches.Patch(): an empty dict.
EmptyPatch == [f |-> [x \in Fields |-> "absent"], touched |-> FALSE, mark |-> None]

\* bool(patch): a dict is true when it has a key.
Truthy(patch) == patch.touched \/ \E x \in Fields : patch.f[x] # "absent"

\* progress_storage.touch(body, patch, value): the marker goes to the patch.
StorageTouch(patch, value) == [patch EXCEPT !.touched = TRUE, !.mark = value]

\* The bodies patching.patch_obj may return for a patch: each patched field
\* comes back as sent, or removed, or changed by somebody else.
ResultingBodies(patch) ==
    {b \in [Fields -> Vals] :
        \A x \in Fields :
            IF patch.f[x] = "absent" THEN b[x] = "absent"
            ELSE b[x] \in {patch.f[x], "absent", "b"}}

\* patching.patch_obj: the write fails in the transport, or returns a body.
PatchObj(patch) ==
    {[ok |-> FALSE, body |-> [x \in Fields |-> "absent"]]}
    \cup {[ok |-> TRUE, body |-> b] : b \in ResultingBodies(patch)}

\* diffs.diff(patch, resulting_body, scope=LEFT): only the patch's fields.
Diff(patch, body) ==
    {[op |-> IF body[x] = "absent" THEN "remove" ELSE "change",
      field |-> x, old |-> patch.f[x], new |-> body[x]] :
        x \in {y \in Fields : patch.f[y] # "absent" /\ patch.f[y] # body[y]}}

\* A variant: the known fields are never reported, whatever the values.
IsReportedOutsideKnownFields(item) == item.field \notin KNOWN_INCONSISTENCIES

\* if old or new or field not in KNOWN_INCONSISTENCIES
IsReported(item) ==
    ~Falsy(item.old) \/ ~Falsy(item.new) \/ item.field \notin KNOWN_INCONSISTENCIES

FilterInconsistencies(diff) == {item \in diff : IsReported(item)}

\* A variant: the inconsistencies are an error.
InconsistenciesRaiseStrict(inconsistencies) == inconsistencies # {}

\* if inconsistencies: logger.warning(...) -- logged, never raised.
InconsistenciesRaise(inconsistencies) == FALSE

NoPatchAndCheck ==
    [called |-> FALSE, patch |-> EmptyPatch, writes |-> 0, diffs |-> 0,
     failed |-> FALSE, raised |-> FALSE, found |-> {}, inconsistencies |-> {},
     warned |-> FALSE]

\* All the outcomes of one call of patch_and_check(patch).
PatchAndCheck(patch) ==
    IF ~Truthy(patch)
    THEN {[called |-> TRUE, patch |-> patch, writes |-> 0, diffs |-> 0,
           failed |-> FALSE, raised |-> FALSE, found |-> {},
           inconsistencies |-> {}, warned |-> FALSE]}
    ELSE {IF ~r.ok
          THEN [called |-> TRUE, patch |-> patch, writes |-> 1, diffs |-> 0,
                failed |-> TRUE, raised |-> TRUE, found |-> {},
                inconsistencies |-> {}, warned |-> FALSE]
          ELSE LET found == Diff(patch, r.body)
                   inconsistencies == FilterInconsistencies(found)
               IN
               [called |-> TRUE, patch |-> patch, writes |-> 1, diffs |-> 1,
                failed |-> FALSE, raised |-> InconsistenciesRaise(inconsistencies),
                found |-> found, inconsistencies |-> inconsistencies,
                warned |-> inconsistencies # {}]
          : r \in PatchObj(patch)}

-----------------------------------------------------------------------------
(* apply *)

\* The patches the handlers hand over to apply().
InputPatches ==
    {EmptyPatch,
     [EmptyPatch EXCEPT !.f["status.x"] = "a"],
     [EmptyPatch EXCEPT !.f["metadata.labels"] = "empty"],
     [EmptyPatch EXCEPT !.f["metadata.labels"] = "a", !.f["status.x"] = "empty"]}

\* The delays the handlers hand over to apply().
InputDelays ==
    {<<>>, <<None>>, <<None, None>>, <<Some(5), None>>, <<Some(0)>>,
     <<Some(-1)>>, <<Some(3), Some(2)>>, <<Some(WAITING_KEEPALIVE_INTERVAL + 1)>>}

\* min() of a non-empty sequence: comparing None with anything is a
\* TypeError; one item alone is compared with nothing.
PyMin(ds) ==
    IF Len(ds) = 1 THEN [err |-> FALSE, val |-> ds[1]]
    ELSE IF \E i \in 1..Len(ds) : ds[i] = None
    THEN [err |-> TRUE, val |-> None]
    ELSE [err |-> FALSE, val |-> Some(SetMin({Val(o) : o \in SeqRange(ds)}))]

\* delay = min(delays) if delays else None
ApplyDelay(delays) ==
    IF Len(delays) > 0 THEN PyMin(delays) ELSE [err |-> FALSE, val |-> None]

\* bool(delay): neither None nor zero.
DelayTruthy(delay) == delay # None /\ Val(delay) # 0

\* A variant: the sleep is not skipped after the patch.
NeverSkipped(delay, patch) == FALSE

\* if delay and patch: the sleeping is skipped because of the patch.
SkippedBecauseOfPatch(delay, patch) == DelayTruthy(delay) /\ Truthy(patch)

\* For how long to sleep for a delay that is there; None: no need to sleep.
SleepTime(delay) ==
    IF Val(delay) > WAITING_KEEPALIVE_INTERVAL THEN Some(WAITING_KEEPALIVE_INTERVAL)
    ELSE IF Val(delay) > 0 THEN delay
    ELSE None

\* A variant: the touching is never excluded.
TouchNeverExcluded(patch, delay) == FALSE

\* A variant: no touching for a zero delay, with a patch or with none.
TouchExcludedForNoDelay(patch, delay) == ~DelayTruthy(delay)

\* if patch and not delay: no touching immediately after patching.
TouchExcluded(patch, delay) == Truthy(patch) /\ ~DelayTruthy(delay)

\* A variant: a zero rest of the sleep is taken for no rest.
InterruptedWithTimeLeft(unslept_delay) == unslept_delay # None /\ Val(unslept_delay) # 0

\* elif unslept_delay is not None: the sleeping was interrupted.
Interrupted(unslept_delay) == unslept_delay # None

\* A variant: no delay is enough to be applied.
AppliedAlways(patch) == TRUE

\* elif not patch: no patch/touch and no delay.
AppliedWithoutDelay(patch) == ~Truthy(patch)

\* What the log of the cycle says of a write: done, or failed.
Written(kind, o) == IF o.failed THEN kind \o "_failed" ELSE kind

\* A variant: the same value every time.
TouchValueStale(clock) == Some(0)

\* value = datetime.datetime.utcnow().isoformat()
TouchValue(clock) == Some(clock)

NoApply ==
    [patch |-> EmptyPatch, delays |-> <<>>, delay |-> None, sleep |-> None,
     unslept |-> None, log |-> <<>>, before |-> None, mark |-> None,
     result |-> "none", applied |-> FALSE, exc |-> "none"]

Returned(frame, applied) == [frame EXCEPT !.result = "returned", !.applied = applied]

Raised(frame, exc) == [frame EXCEPT !.result = "raised", !.exc = exc]

\* apply() is called: the delay is taken from the delays.
ApplyCall(patch, delays) ==
    /\ unit = "apply"
    /\ pc = "idle"
    /\ steps < MaxSteps
    /\ steps' = steps + 1
    /\ LET d == ApplyDelay(delays)
           frame == [NoApply EXCEPT !.patch = patch, !.delays = delays, !.delay = d.val]
       IN IF d.err
          THEN a' = Raised(frame, "TypeError") /\ pc' = "idle"
          ELSE a' = frame /\ pc' = "a_patch"
    /\ pac' = NoPatchAndCheck
    /\ slp' = NoSleep
    /\ UNCHANGED <<unit, backoff, now, wakeup, throttler, lastMarker, t>>

\* The dummies are deleted, the patch is written, and the way to go is
\* chosen: to return, to sleep, or to go on as if slept in full.
ApplyPatch ==
    /\ pc = "a_patch"
    /\ LET patch == IF Truthy(a.patch) THEN StorageTouch(a.patch, None) ELSE a.patch
       IN \E o \in PatchAndCheck(patch) :
            /\ pac' = o
            /\ LET frame == [a EXCEPT !.patch = patch,
                                      !.log = IF o.writes = 1
                                              THEN Append(@, Written("patch", o))
                                              ELSE @]
               IN IF o.raised
                  THEN a' = Raised(frame, "PatchError") /\ pc' = "idle"
                  ELSE IF SkippedBecauseOfPatch(a.delay, patch)
                  THEN a' = Returned(frame, FALSE) /\ pc' = "idle"
                  ELSE IF a.delay # None
                  THEN /\ a' = [frame EXCEPT !.sleep = SleepTime(a.delay)]
                       /\ pc' = IF SleepTime(a.delay) # None THEN "a_sleep" ELSE "a_decide"
                  ELSE a' = Returned(frame, AppliedWithoutDelay(patch)) /\ pc' = "idle"
    /\ UNCHANGED <<unit, backoff, now, wakeup, steps, throttler, lastMarker, slp, t>>

\* unslept_delay = await sleep_or_wait(..., replenished)
ApplySleep ==
    /\ pc = "a_sleep"
    /\ \E o \in SleepOrWait(Scalar(a.sleep), Some(wakeup)) :
            /\ slp' = o
            /\ now' = now + o.elapsed
            /\ wakeup' = o.wakeup
            /\ a' = [a EXCEPT !.unslept = o.ret, !.log = Append(@, "sleep")]
    /\ pc' = "a_decide"
    /\ UNCHANGED <<unit, backoff, steps, throttler, lastMarker, pac, t>>

\* After the sleep: the object is touched if the sleep was not interrupted.
ApplyDecide ==
    /\ pc = "a_decide"
    /\ pc' = "idle"
    /\ IF TouchExcluded(a.patch, a.delay) \/ Interrupted(a.unslept)
       THEN /\ a' = Returned(a, FALSE)
            /\ UNCHANGED <<pac, lastMarker>>
       ELSE LET value == TouchValue(now)
                touch == StorageTouch(EmptyPatch, value)
            IN \E o \in PatchAndCheck(touch) :
                 /\ pac' = o
                 /\ LET frame == [a EXCEPT !.log = IF o.writes = 1
                                                  THEN Append(@, Written("touch", o))
                                                  ELSE @,
                                           !.before = lastMarker,
                                           !.mark = value]
                    IN a' = IF o.raised THEN Raised(frame, "PatchError")
                            ELSE Returned(frame, FALSE)
                 /\ lastMarker' = IF o.writes = 1 /\ ~o.failed THEN value ELSE lastMarker
    /\ UNCHANGED <<unit, backoff, now, wakeup, steps, throttler, slp, t>>

-----------------------------------------------------------------------------
(* throttled *)

\* The sequences of backoff delays the callers configure.
ThrottleDelays == {<<>>, <<0>>, <<2>>, <<1, 3>>}

\* How the guarded scope is left: with no exception, with an Exception of
\* the errors, with an Exception not of the errors, or with a BaseException
\* that is not an Exception (not of the errors, or listed in the errors).
Exits == {"none", "error", "foreign", "fatal", "fatal_listed"}

\* Whether "except Exception" catches it.
IsException(e) == e \in {"error", "foreign"}

\* isinstance(e, errors)
IsInstanceOfErrors(e) == e \in {"error", "fatal_listed"}

IdleThrottler == [active_until |-> None, source_of_delays |-> None, last_used_delay |-> None]

\* A variant: the throttling is over after any sleep, interrupted or not.
SleepOutThrottlingAlwaysOver(th, clock, wk) ==
    {[th |-> [th EXCEPT !.active_until = None], sleep |-> o] :
        o \in SleepOrWait(Scalar(Some(Val(th.active_until) - clock)), wk)}

\* A variant: the throttling is over only after a real wait.
SleepOutThrottlingIfWaited(th, clock, wk) ==
    {[th |-> IF o.ret = None /\ o.waited THEN [th EXCEPT !.active_until = None] ELSE th,
      sleep |-> o] :
        o \in SleepOrWait(Scalar(Some(Val(th.active_until) - clock)), wk)}

\* The 1st and the 2nd sleep: the rest of the throttling window is slept,
\* and the throttling is over if the sleep was not interrupted.
SleepOutThrottling(th, clock, wk) ==
    {[th |-> IF o.ret = None THEN [th EXCEPT !.active_until = None] ELSE th,
      sleep |-> o] :
        o \in SleepOrWait(Scalar(Some(Val(th.active_until) - clock)), wk)}

\* A variant: the iterator is kept.
ResetLastOnly(th) == [th EXCEPT !.last_used_delay = None]

\* A variant: the last used delay is kept.
ResetSourceOnly(th) == [th EXCEPT !.source_of_delays = None]

\* throttler.source_of_delays = throttler.last_used_delay = None
ResetThrottling(th) == [th EXCEPT !.source_of_delays = None, !.last_used_delay = None]

\* next(throttler.source_of_delays, throttler.last_used_delay), with the
\* iterator made of the delays if there is none yet.
\* A variant: the exhausted iterator is made anew of the delays.
ActivateThrottlingRestart(th, delays, clock) ==
    LET source == IF th.source_of_delays = None \/ Val(th.source_of_delays) = <<>>
                  THEN delays ELSE Val(th.source_of_delays)
        throttle_delay == IF source # <<>> THEN Some(Head(source)) ELSE th.last_used_delay
        rest == IF source # <<>> THEN Tail(source) ELSE source
    IN IF throttle_delay # None
       THEN [active_until |-> Some(clock + Val(throttle_delay)),
             source_of_delays |-> Some(rest),
             last_used_delay |-> throttle_delay]
       ELSE [th EXCEPT !.source_of_delays = Some(rest)]

\* A variant: the delay is not added to the time.
ActivateThrottlingNoDelay(th, delays, clock) ==
    [th EXCEPT !.active_until = Some(clock), !.source_of_delays = Some(<<>>)]

ActivateThrottling(th, delays, clock) ==
    LET source == IF th.source_of_delays = None THEN delays ELSE Val(th.source_of_delays)
        throttle_delay == IF source # <<>> THEN Some(Head(source)) ELSE th.last_used_delay
        rest == IF source # <<>> THEN Tail(source) ELSE source
    IN IF throttle_delay # None
       THEN [active_until |-> Some(clock + Val(throttle_delay)),
             source_of_delays |-> Some(rest),
             last_used_delay |-> throttle_delay]
       ELSE [th EXCEPT !.source_of_delays = Some(rest)]

\* A variant: the errors are throttled even if the scope should not run.
EscalatesWhateverShouldRun(e, should_run) ==
    \/ ~IsException(e)
    \/ ~IsInstanceOfErrors(e)

\* A variant: every Exception is throttled.
EscalatesFatalOnly(e, should_run) == ~IsException(e)

\* A variant: nothing is throttled.
EscalatesAlways(e, should_run) == TRUE

\* Whether the exception leaves throttled() to the caller.
Escalates(e, should_run) ==
    \/ ~IsException(e)
    \/ ~IsInstanceOfErrors(e)
    \/ ~should_run

\* The except/else clauses around the yield.
LeaveScope(th, should_run, e, delays, clock) ==
    IF e = "none"
    THEN [th |-> IF should_run THEN ResetThrottling(th) ELSE th, propagated |-> FALSE]
    ELSE IF Escalates(e, should_run)
    THEN [th |-> th, propagated |-> TRUE]
    ELSE [th |-> ActivateThrottling(th, delays, clock), propagated |-> FALSE]

NoThrottled ==
    [delays |-> <<>>, entry |-> IdleThrottler, entryNow |-> 0, pre |-> NoSleep,
     atYield |-> IdleThrottler, yieldNow |-> 0, should_run |-> FALSE,
     exit |-> "none", propagated |-> FALSE, left |-> IdleThrottler, leftNow |-> 0,
     post |-> NoSleep, final |-> IdleThrottler, stage |-> "none"]

\* What has happened to the throttler so far: the number of the throttled
\* failures since the last success that should run, the delays of which
\* the iterator was made at the first of them, and the end of the last
\* throttling window.
NoBackoff == [failures |-> 0, delays |-> <<>>, until |-> None]

Recorded(e, should_run, l, delays) ==
    IF e # "none" /\ ~l.propagated
    THEN [failures |-> backoff.failures + 1,
          delays |-> IF backoff.failures = 0 THEN delays ELSE backoff.delays,
          until |-> IF l.th.active_until # None THEN l.th.active_until ELSE backoff.until]
    ELSE IF e = "none" /\ should_run
    THEN [backoff EXCEPT !.failures = 0, !.delays = <<>>]
    ELSE backoff

\* A variant: the 2nd sleep is left out.
NeverJustActivated(th, should_run) == FALSE

\* if throttler.active_until is not None and should_run: the throttling
\* has been just activated.
JustActivated(th, should_run) == th.active_until # None /\ should_run

\* throttled() up to the yield: the 1st sleep, and should_run is yielded.
EnterScope(delays) ==
    /\ pc = "idle"
    /\ pc' = "t_body"
    /\ \E r \in IF throttler.active_until # None
                THEN SleepOutThrottling(throttler, now, Some(wakeup))
                ELSE {[th |-> throttler, sleep |-> NoSleep]} :
         /\ throttler' = r.th
         /\ now' = now + r.sleep.elapsed
         /\ wakeup' = IF r.sleep.called THEN r.sleep.wakeup ELSE wakeup
         /\ slp' = r.sleep
         /\ t' = [NoThrottled EXCEPT !.delays = delays, !.entry = throttler,
                                     !.entryNow = now, !.pre = r.sleep,
                                     !.atYield = r.th, !.yieldNow = now + r.sleep.elapsed,
                                     !.should_run = (r.th.active_until = None),
                                     !.stage = "yielded"]
    /\ a' = NoApply
    /\ pac' = NoPatchAndCheck
    /\ UNCHANGED <<unit, backoff, lastMarker>>

\* throttled() after the yield: the except/else clauses, and the 2nd sleep.
ExitScope(e) ==
    /\ pc = "t_body"
    /\ pc' = "idle"
    /\ LET l == LeaveScope(throttler, t.should_run, e, t.delays, now)
       IN /\ \E r \in IF ~l.propagated /\ JustActivated(l.th, t.should_run)
                      THEN SleepOutThrottling(l.th, now, Some(wakeup))
                      ELSE {[th |-> l.th, sleep |-> NoSleep]} :
               /\ throttler' = r.th
               /\ now' = now + r.sleep.elapsed
               /\ wakeup' = IF r.sleep.called THEN r.sleep.wakeup ELSE wakeup
               /\ slp' = IF r.sleep.called THEN r.sleep ELSE slp
               /\ t' = [t EXCEPT !.exit = e, !.propagated = l.propagated, !.left = l.th,
                                 !.leftNow = now, !.post = r.sleep, !.final = r.th,
                                 !.stage = "done"]
          /\ backoff' = Recorded(e, t.should_run, l, t.delays)
    /\ UNCHANGED <<unit, lastMarker, a, pac>>

\* throttled() is entered.
ThrottledEnter(delays) ==
    /\ unit = "throttled"
    /\ steps < MaxSteps
    /\ steps' = steps + 1
    /\ EnterScope(delays)

\* The guarded scope is left.
ThrottledExit(e) ==
    /\ ExitScope(e)
    /\ UNCHANGED steps

-----------------------------------------------------------------------------
(* A bare sleep_or_wait, and the world around *)

\* The delays of a bare sleep_or_wait().
SleepArgs ==
    {Scalar(None), Scalar(Some(-1)), Scalar(Some(2)), Coll(<<>>), Coll(<<None>>),
     Coll(<<None, Some(3), Some(1)>>)}

\* sleep_or_wait(d, wakeup), with the worker's event or with no event.
SleepCall(d, withEvent) ==
    /\ unit = "sleep_or_wait"
    /\ pc = "idle"
    /\ steps < MaxSteps
    /\ steps' = steps + 1
    /\ \E o \in SleepOrWait(d, IF withEvent THEN Some(wakeup) ELSE None) :
         /\ slp' = o
         /\ now' = now + o.elapsed
         /\ wakeup' = IF withEvent THEN o.wakeup ELSE wakeup
    /\ a' = NoApply
    /\ pac' = NoPatchAndCheck
    /\ t' = NoThrottled
    /\ UNCHANGED <<unit, backoff, pc, throttler, lastMarker>>

\* The lengths of the pauses between the calls.
Pauses == {1, 2}

\* The records of the finished calls are dropped when the world moves on;
\* the record of a guarded scope that still runs is kept.
Forget ==
    /\ a' = NoApply
    /\ pac' = NoPatchAndCheck
    /\ slp' = IF pc = "idle" THEN NoSleep ELSE slp
    /\ t' = IF pc = "idle" THEN NoThrottled ELSE t

\* Time goes by between the calls, and while the guarded scope runs.
Pass(d) ==
    /\ pc \in {"idle", "t_body"}
    /\ now' = now + d
    /\ Forget
    /\ UNCHANGED <<unit, wakeup, pc, throttler, backoff, lastMarker>>

Tick(d) ==
    /\ steps < MaxSteps
    /\ steps' = steps + 1
    /\ Pass(d)

\* New events arrive for the object: the event is set.
SetWakeup ==
    /\ pc \in {"idle", "t_body"}
    /\ ~wakeup
    /\ wakeup' = TRUE
    /\ Forget
    /\ UNCHANGED <<unit, backoff, now, steps, pc, throttler, lastMarker>>

\* The owner of the event clears it.
ClearWakeup ==
    /\ pc \in {"idle", "t_body"}
    /\ wakeup
    /\ wakeup' = FALSE
    /\ Forget
    /\ UNCHANGED <<unit, backoff, now, steps, pc, throttler, lastMarker>>

-----------------------------------------------------------------------------

\* The routines of the module.
Units == {"apply", "throttled", "sleep_or_wait"}

Init ==
    /\ unit \in Units
    /\ now = 0
    /\ wakeup = FALSE
    /\ steps = 0
    /\ pc = "idle"
    /\ throttler = IdleThrottler
    /\ backoff = NoBackoff
    /\ lastMarker = None
    /\ a = NoApply
    /\ pac = NoPatchAndCheck
    /\ slp = NoSleep
    /\ t = NoThrottled

Next ==
    \/ \E patch \in InputPatches, delays \in InputDelays : ApplyCall(patch, delays)
    \/ ApplyPatch
    \/ ApplySleep
    \/ ApplyDecide
    \/ \E delays \in ThrottleDelays : ThrottledEnter(delays)
    \/ \E e \in Exits : ThrottledExit(e)
    \/ \E d \in SleepArgs, withEvent \in BOOLEAN : SleepCall(d, withEvent)
    \/ \E d \in Pauses : Tick(d)
    \/ SetWakeup
    \/ ClearWakeup

Spec == Init /\ [][Next]_vars

-----------------------------------------------------------------------------
(* The properties of apply *)

Events(log) == {log[i] : i \in 1..Len(log)}

\* The apply cycle is over: it has returned or raised.
ApplyOver == a.result # "none"

\* C1: in an apply cycle, a non-empty patch is written before any sleep of
\* the cycle starts; and once a non-empty patch is written while a delay
\* is pending, the cycle sleeps not at all and returns applied=false.
C1_PatchBeforeSleep ==
    /\ \A i \in 1..Len(a.log) :
          (a.log[i] = "sleep" /\ Truthy(a.patch))
              => \E j \in 1..(i - 1) : a.log[j] = "patch"
    /\ ("patch" \in Events(a.log) /\ a.delay # None)
          => /\ "sleep" \notin Events(a.log)
             /\ pc # "a_sleep"
             /\ a.result # "raised"
             /\ ApplyOver => ~a.applied

C1_Witness ==
    /\ a.result = "returned"
    /\ a.log = <<"patch">>
    /\ a.delay # None
    /\ Val(a.delay) > 0

\* C2: apply returns applied=true exactly when there is no delay and the
\* patch is empty, and then it has written nothing and slept not at all;
\* in all other cases it returns applied=false.
C2_AppliedIffNothingToDo ==
    a.result = "returned"
        => /\ a.applied <=> (a.delay = None /\ ~Truthy(a.patch))
           /\ a.applied => (a.log = <<>> /\ pac.writes = 0 /\ ~slp.called)

C2_Witness ==
    /\ a.result = "returned"
    /\ a.applied
    /\ a.delays = <<>>

\* The cycle had a positive delay and no patch, and its sleep elapsed in full.
SleptInFull ==
    /\ ApplyOver
    /\ a.delay # None
    /\ Val(a.delay) > 0
    /\ ~Truthy(a.patch)
    /\ "sleep" \in Events(a.log)
    /\ a.unslept = None

\* C3: a cycle with delay>0 and an empty patch whose sleep elapses in full
\* makes exactly one touch write, after the sleep, with a marker that
\* differs from the marker of the previous touch; applied=false.
C3_OneFreshTouchAfterFullSleep ==
    SleptInFull
        => /\ a.log \in {<<"sleep", "touch">>, <<"sleep", "touch_failed">>}
           /\ pac.called /\ pac.writes = 1
           /\ pac.patch = StorageTouch(EmptyPatch, a.mark)
           /\ a.mark # None
           /\ a.mark # a.before
           /\ ~a.applied
           /\ a.result = "returned" <=> ~pac.failed

C3_Witness ==
    /\ SleptInFull
    /\ a.result = "returned"
    /\ a.log = <<"sleep", "touch">>
    /\ a.before # None

NonNullDelays(delays) == {Val(delays[i]) : i \in {j \in 1..Len(delays) : delays[j] # None}}

\* C4: apply takes the minimum of the non-null delays as the deadline: the
\* null entries are left out before the minimum is taken, and delays with
\* null entries only, however many, are no deadline.
C4_MinOfNonNullDelays ==
    (ApplyOver \/ pc \in {"a_patch", "a_sleep", "a_decide"})
        => /\ a.exc # "TypeError"
           /\ a.delay = IF NonNullDelays(a.delays) = {} THEN None
                        ELSE Some(SetMin(NonNullDelays(a.delays)))

-----------------------------------------------------------------------------
(* The properties of throttled *)

\* The guarded scope was entered: should_run is yielded.
Yielded == t.stage \in {"yielded", "done"}

\* throttled() is over: it has returned or has let the exception through.
ThrottledOver == t.stage = "done"

\* A first failure: an Exception of the errors in a scope that should run,
\* with no sequence of delays started yet.
FirstFailure ==
    /\ ThrottledOver
    /\ t.exit = "error"
    /\ t.should_run
    /\ t.atYield.source_of_delays = None

\* A call that yields while the throttling of an earlier failure lasts
\* recommends not to run.
SkipsBeforeActiveUntil ==
    (Yielded /\ t.entry.active_until # None /\ t.yieldNow < Val(t.entry.active_until))
        => ~t.should_run

\* A call made when active_until has passed recommends to run.
RunsAfterActiveUntil ==
    (Yielded /\ t.entry.active_until # None /\ t.entryNow >= Val(t.entry.active_until))
        => t.should_run

\* C5 as stated: the first failure sets active_until to a time in the
\* future, whatever the delays are; the next call before that time yields
\* should_run=false, a call after that time yields should_run=true.
C5_FirstFailureAlwaysThrottles ==
    /\ FirstFailure
          => (t.left.active_until # None /\ Val(t.left.active_until) > t.leftNow)
    /\ SkipsBeforeActiveUntil
    /\ RunsAfterActiveUntil

\* C5, amended: the first failure sets active_until to a time in the future
\* if the delays begin with a positive delay (now + that delay), and sets
\* no active_until at all if there are no delays; the next call that yields
\* before that time yields should_run=false, a call made after that time
\* yields should_run=true.
C5_FirstFailureThrottlesForPositiveDelay ==
    /\ (FirstFailure /\ t.delays # <<>> /\ Head(t.delays) > 0)
          => /\ t.left.active_until = Some(t.leftNow + Head(t.delays))
             /\ Val(t.left.active_until) > t.leftNow
    /\ (FirstFailure /\ t.delays = <<>>) => t.left.active_until = None
    /\ SkipsBeforeActiveUntil
    /\ RunsAfterActiveUntil

C5_Witness ==
    /\ t.stage = "yielded"
    /\ t.entry.active_until # None
    /\ t.entry.last_used_delay # None
    /\ t.yieldNow < Val(t.entry.active_until)
    /\ ~t.should_run

\* C6: when the guarded scope is left with no exception and should_run was
\* true, then source_of_delays, last_used_delay and active_until are null
\* when throttled() returns.
C6_SuccessResets ==
    (ThrottledOver /\ t.exit = "none" /\ t.should_run)
        => /\ ~t.propagated
           /\ t.final.source_of_delays = None
           /\ t.final.last_used_delay = None
           /\ t.final.active_until = None

C6_Witness ==
    /\ ThrottledOver
    /\ t.exit = "none"
    /\ t.should_run
    /\ t.atYield.source_of_delays # None
    /\ t.atYield.last_used_delay # None

\* An exception that is not of the errors, or a BaseException.
Escalated == t.exit \in {"foreign", "fatal", "fatal_listed"}

\* C7 as stated: an escalated exception always goes to the caller, and the
\* call of throttled() in which it is raised leaves the throttler as it
\* was before the call.
C7_EscalatedLeavesStateAsBeforeCall ==
    (ThrottledOver /\ Escalated)
        => (t.propagated /\ t.final = t.entry)

\* C7, amended: an escalated exception always goes to the caller, and the
\* throttler is left as it was when should_run was yielded (the 1st sleep
\* of the same call may have ended the throttling before).
C7_EscalatedLeavesStateAsYielded ==
    (ThrottledOver /\ Escalated)
        => /\ t.propagated
           /\ t.final = t.atYield
           /\ throttler = t.atYield
           /\ ~t.post.called

C7_Witness ==
    /\ ThrottledOver
    /\ t.exit = "foreign"
    /\ t.should_run
    /\ t.propagated
    /\ t.atYield.source_of_delays # None

\* C8: an Exception of the errors raised in a scope that should run never
\* goes to the caller, whatever the delays are, the empty ones too; the
\* later calls recommend to run only when the backoff has elapsed.
C8_ThrottledErrorIsSwallowed ==
    /\ (ThrottledOver /\ t.exit = "error" /\ t.should_run) => ~t.propagated
    /\ (Yielded /\ t.should_run /\ t.entry.active_until # None)
          => t.yieldNow >= Val(t.entry.active_until)

C8_Witness ==
    /\ ThrottledOver
    /\ t.exit = "error"
    /\ t.should_run
    /\ t.delays = <<>>
    /\ ~t.propagated

-----------------------------------------------------------------------------
(* The properties of sleep_or_wait and of patch_and_check *)

\* C9: sleep_or_wait returns None with no waiting when minimal_delay <= 0,
\* and None when the timeout elapses with no signal; interrupted at the
\* time t < minimal_delay it returns a non-null value within
\* [0, minimal_delay - t], never negative, never above minimal_delay.
C9_SleepOrWaitResult ==
    slp.called
        => /\ slp.minimal <= 0 => (slp.ret = None /\ ~slp.waited /\ slp.elapsed = 0)
           /\ (slp.waited /\ ~slp.signalled) => slp.ret = None
           /\ slp.signalled
                 => /\ slp.ret # None
                    /\ Val(slp.ret) >= 0
                    /\ Val(slp.ret) <= slp.minimal
           /\ (slp.signalled /\ slp.elapsed < slp.minimal)
                 => Val(slp.ret) <= slp.minimal - slp.elapsed

C9_Witness ==
    /\ slp.called
    /\ slp.signalled
    /\ 0 < slp.elapsed
    /\ slp.elapsed < slp.minimal
    /\ slp.ret = Some(slp.minimal - slp.elapsed)

\* C10: patch_and_check makes no write and no diff for an empty patch and
\* exactly one write for a non-empty one, and it raises only if that write
\* fails: never for the inconsistencies, however many.
C10_PatchAndCheckWritesOnce ==
    pac.called
        => /\ ~Truthy(pac.patch) => (pac.writes = 0 /\ pac.diffs = 0 /\ ~pac.raised)
           /\ Truthy(pac.patch) => pac.writes = 1
           /\ pac.raised <=> pac.failed
           /\ pac.warned => a.exc # "PatchError"

C10_Witness ==
    /\ pac.called
    /\ Cardinality(pac.inconsistencies) = 2
    /\ ~pac.raised
    /\ a.result = "returned"

\* A field is empty: not there, or an empty list/dict.
Empty(v) == v \in {"absent", "empty"}

\* C11: an entry of the diff is suppressed exactly when its field is one of
\* the KNOWN_INCONSISTENCIES and both its old and its new value are empty;
\* an entry of such a field with a non-empty old or new value, and any
\* entry of another field, is kept and reported.
C11_KnownInconsistenciesFiltered ==
    pac.called
        => /\ pac.inconsistencies \subseteq pac.found
           /\ \A item \in pac.found :
                 item \notin pac.inconsistencies
                     <=> /\ item.field \in {"metadata.annotations", "metadata.finalizers",
                                            "metadata.labels"}
                         /\ Empty(item.old)
                         /\ Empty(item.new)
           /\ pac.warned <=> pac.inconsistencies # {}

C11_Witness ==
    /\ pac.called
    /\ \E item \in pac.found :
          /\ item.field = "metadata.labels"
          /\ item.old = "empty"
          /\ item.new = "absent"
    /\ pac.inconsistencies = {}
    /\ ~pac.warned

-----------------------------------------------------------------------------
(* The properties of the backoff *)

\* A throttled failure: an Exception of the errors in a scope that should run.
ThrottledFailure == ThrottledOver /\ t.exit = "error" /\ t.should_run

\* A success that counts: no exception in a scope that should run.
CleanSuccess == ThrottledOver /\ t.exit = "none" /\ t.should_run

\* C12: of the failures in a row with no success in between, the k-th one
\* uses the k-th delay of the sequence; once the sequence is exhausted,
\* every further failure uses the last delay again, and neither raises nor
\* starts with the first delay again; after a success that should run the
\* next failure starts with the first delay.
C12_BackoffSequence ==
    /\ ThrottledFailure
          => /\ ~t.propagated
             /\ backoff.failures >= 1
             /\ backoff.failures = 1 => backoff.delays = t.delays
             /\ backoff.delays # <<>>
                   => LET k == backoff.failures
                          n == Len(backoff.delays)
                          d == backoff.delays[IF k <= n THEN k ELSE n]
                      IN /\ t.left.last_used_delay = Some(d)
                         /\ t.left.active_until = Some(t.leftNow + d)
    /\ CleanSuccess => backoff.failures = 0

C12_Witness ==
    /\ ThrottledFailure
    /\ backoff.failures = 3
    /\ backoff.delays = <<1, 3>>
    /\ t.left.active_until = Some(t.leftNow + 3)

\* C13: in a call that yields should_run=false, leaving the scope changes
\* nothing of the throttler: with no exception nothing is reset and there
\* is no 2nd sleep; an exception, be it one of the errors, is raised again,
\* and the throttler stays as it was.
C13_SkippedScopeLeavesState ==
    (ThrottledOver /\ ~t.should_run)
        => /\ t.final = t.atYield
           /\ throttler = t.atYield
           /\ ~t.post.called
           /\ t.propagated <=> t.exit # "none"
           /\ backoff.until = t.atYield.active_until

C13_Witness ==
    /\ ThrottledOver
    /\ ~t.should_run
    /\ t.exit = "error"
    /\ t.propagated
    /\ throttler.active_until # None

\* C14 as stated: between the calls, source_of_delays is non-null only
\* when active_until is non-null.
C14_SourceOnlyWhileActive ==
    pc = "idle"
        => (throttler.source_of_delays # None => throttler.active_until # None)

\* C14, amended: between the calls, source_of_delays is non-null only
\* after a throttled failure with no success that should run since then;
\* active_until may be null again by then.
C14_SourceOnlyAfterFailure ==
    pc = "idle"
        => (throttler.source_of_delays # None => backoff.failures > 0)

C14_Witness ==
    /\ pc = "idle"
    /\ throttler.source_of_delays # None
    /\ throttler.active_until = None
    /\ throttler.last_used_delay # None
    /\ backoff.failures > 0

\* C15: should_run is yielded true iff active_until is null at the yield;
\* active_until is cleared only by a sleep that was not interrupted; so
\* that after a failure throttled until some time no call yields
\* should_run=true before that time, whatever the interruptions.
C15_BackoffNotBypassed ==
    /\ Yielded => (t.should_run <=> t.atYield.active_until = None)
    /\ t.stage = "yielded" => (t.should_run <=> throttler.active_until = None)
    /\ (Yielded /\ t.entry.active_until # None /\ t.atYield.active_until = None)
          => /\ t.pre.called
             /\ t.pre.ret = None
             /\ t.yieldNow >= Val(t.entry.active_until)
    /\ (ThrottledOver /\ t.atYield.active_until # None)
          => t.final.active_until = t.atYield.active_until
    /\ (ThrottledOver /\ t.left.active_until # None /\ t.final.active_until = None)
          => /\ t.post.called
             /\ t.post.ret = None
             /\ now >= Val(t.left.active_until)
    /\ (t.stage = "yielded" /\ t.should_run /\ backoff.until # None)
          => t.yieldNow >= Val(backoff.until)

C15_Witness ==
    /\ t.stage = "yielded"
    /\ t.should_run
    /\ t.entry.active_until # None
    /\ t.pre.waited
    /\ ~t.pre.signalled
    /\ t.entryNow > Val(t.entry.active_until) - Val(t.entry.last_used_delay)
    /\ t.yieldNow = Val(backoff.until)

\* C16: in the call where the throttling is activated, the new window is
\* slept out before the call returns: active_until is null on return if
\* that sleep was not interrupted, and keeps the value set by the failure
\* if it was.
C16_FreshThrottlingSleptInline ==
    (ThrottledFailure /\ t.left.active_until # None)
        => /\ t.post.called
           /\ t.post.minimal = Val(t.left.active_until) - t.leftNow
           /\ t.post.ret = None => t.final = [t.left EXCEPT !.active_until = None]
           /\ t.post.ret # None => t.final = t.left
           /\ throttler = t.final

C16_Witness ==
    /\ ThrottledFailure
    /\ t.post.called
    /\ t.post.signalled
    /\ t.final.active_until = Some(t.leftNow + 3)

-----------------------------------------------------------------------------
(* More properties of apply *)

\* The writes of the cycle, done or failed.
Writes(log) == SelectSeq(log, LAMBDA ev : ev # "sleep")

\* C17: in an apply cycle in which a non-empty patch was written no touch
\* is written, whatever the delay is: none, zero, negative, positive, above
\* the keepalive interval; so that a cycle makes one write at most.
C17_NoTouchAfterPatch ==
    /\ (Events(a.log) \cap {"patch", "patch_failed"} # {})
          => /\ Events(a.log) \cap {"touch", "touch_failed"} = {}
             /\ pc # "a_sleep"
    /\ Len(Writes(a.log)) <= 1

C17_Witness ==
    /\ a.result = "returned"
    /\ a.log = <<"patch">>
    /\ a.delay = Some(0)
    /\ ~a.applied

\* The sleep of the cycle was interrupted by the event.
SleepInterrupted == "sleep" \in Events(a.log) /\ a.unslept # None

\* C18: in an apply cycle whose sleep is interrupted by the event (a rest
\* of the time is returned, be it 0, and be the event set before the sleep
\* starts), neither a touch nor another write follows the sleep, and
\* applied=false.
C18_NoTouchAfterInterruptedSleep ==
    /\ SleepInterrupted
          => /\ a.log = <<"sleep">>
             /\ slp.signalled
             /\ a.result # "raised"
             /\ ~a.applied
    /\ (SleepInterrupted /\ pc = "idle") => a.result = "returned"

C18_Witness ==
    /\ a.result = "returned"
    /\ a.log = <<"sleep">>
    /\ a.unslept = Some(0)
    /\ ~a.applied

\* C19: in an apply cycle with the delay 0 and an empty patch there is no
\* sleep, and one touch is written at once, whatever the state of the
\* event; applied=false.
C19_ZeroDelayTouchesAtOnce ==
    (a.delay = Some(0) /\ ~Truthy(a.patch))
        => /\ pc # "a_sleep"
           /\ ~slp.called
           /\ "sleep" \notin Events(a.log)
           /\ ~a.applied
           /\ ApplyOver
                 => /\ a.log \in {<<"touch">>, <<"touch_failed">>}
                    /\ a.mark = TouchValue(now)
                    /\ pac.patch = StorageTouch(EmptyPatch, a.mark)
                    /\ a.result = "returned" <=> ~pac.failed

C19_Witness ==
    /\ a.result = "returned"
    /\ a.delay = Some(0)
    /\ a.log = <<"touch">>
    /\ wakeup

-----------------------------------------------------------------------------
(* The throttler that is called again and again, for ever *)

\* throttled() is entered, any number of times.
LiveEnter(delays) ==
    /\ EnterScope(delays)
    /\ UNCHANGED steps

\* The guarded scope is left; it fails only so many times and so long.
LiveExit(e) ==
    /\ e = "error" => (now < Horizon /\ backoff.failures < MaxSteps)
    /\ ExitScope(e)
    /\ UNCHANGED steps

\* Time goes by, as long as there is something to wait for.
LiveTick(d) ==
    /\ \/ now < Horizon
       \/ throttler.active_until # None /\ now < Val(throttler.active_until)
    /\ Pass(d)
    /\ UNCHANGED steps

LiveInit == Init /\ unit = "throttled"

LiveNext ==
    \/ \E delays \in ThrottleDelays : LiveEnter(delays)
    \/ \E e \in Exits : LiveExit(e)
    \/ \E d \in Pauses : LiveTick(d)
    \/ SetWakeup
    \/ ClearWakeup

\* throttled() keeps being called, the scope is always left, and the time
\* keeps going; the event may stay set for ever.
LiveSpec ==
    /\ LiveInit
    /\ [][LiveNext]_vars
    /\ WF_vars(\E delays \in ThrottleDelays : LiveEnter(delays))
    /\ WF_vars(\E e \in Exits : LiveExit(e))
    /\ WF_vars(\E d \in Pauses : LiveTick(d))

\* A call yields should_run=true, with no throttling left.
RunsAgain == t.stage = "yielded" /\ t.should_run /\ throttler.active_until = None

\* C20: if throttled() keeps being called on a throttler with active_until
\* set, and the time keeps going, then at last a call yields
\* should_run=true with active_until null, even if the event stays set
\* for ever and interrupts every sleep.
C20_BackoffClears == (throttler.active_until # None) ~> RunsAgain

C20_Witness ==
    /\ RunsAgain
    /\ wakeup
    /\ t.entry.active_until # None
    /\ t.pre.called
    /\ t.pre.preset
    /\ ~t.pre.waited
    /\ t.pre.ret = None

====
